---------------------------- MODULE Spec2Model ----------------------------
(***************************************************************************)
(* Model of scripts/update_tech_stack.py: one run of the script (listing   *)
(* the repositories page by page, fetching each non-fork repository's      *)
(* languages, aggregating, filtering, sorting, rendering the section and   *)
(* splicing it into README.md), and the splice step applied repeatedly to  *)
(* arbitrary documents.                                                    *)
(*                                                                         *)
(* Text is modelled as a sequence of tokens.  A token stands for a literal *)
(* piece of text that the script either searches for or writes; the        *)
(* sentinels and the marker heading are single tokens, so a regular        *)
(* expression or a str.replace over the text is a scan over the tokens.    *)
(***************************************************************************)
EXTENDS Integers, Sequences, FiniteSets, TLC

(* ------------------------------ bounds -------------------------------- *)

\* most repositories the listing returns over all pages
MaxRepos == 2
\* most entries of one listing page (the code asks for per_page=100)
MaxPageLen == 2
\* most tokens of a document the splice step is applied to
MaxDocLen == 4
\* most applications of the splice step to one document
MaxRuns == 2

(* ------------------------------ config -------------------------------- *)

\* os.environ.get("GITHUB_TOKEN", ""): the default and a set credential
TOKENS == {"", "ghp_secret"}

\* HEADERS: the Authorization entry is built from TOKEN unconditionally
HEADERS(token) ==
    [Authorization |-> <<"Bearer", token>>,
     Accept        |-> "application/vnd.github+json"]

BADGE_MAP_KEYS ==
    {"Java", "JavaScript", "TypeScript", "Python", "Go", "C", "C++", "C#",
     "Rust", "Shell", "HTML", "CSS", "Kotlin", "Swift", "Ruby", "PHP",
     "Scala", "Dockerfile"}

SKIP_LANGUAGES == {"Makefile", "Markdown", "Text", "YAML", "JSON", "TOML", "XML"}

\* MIN_PERCENT = 0.5, held as tenths of a percent
MIN_PERCENT_TENTHS == 5

(* ------------------------------ tokens -------------------------------- *)

Tok(kind, val) == [k |-> kind, v |-> val]

\* "<!-- TECH-STACK-START -->"
START == Tok("start", <<>>)
\* "<!-- TECH-STACK-END -->"
END == Tok("end", <<>>)
\* "## GitHub Stats" heading used as the insertion anchor
MARKER == Tok("marker", <<>>)
\* "\n\n---\n\n"
SEPARATOR == Tok("rule", <<>>)
\* "\n\n"
BLANK == Tok("blank", <<>>)
\* "\n"
NEWLINE == Tok("newline", <<>>)
\* "\n## Tech Stack\n> Auto-detected from my repositories\n\n"
HEADING == Tok("heading", <<>>)
\* BADGE_MAP[l]
BADGE_MAP(l) == Tok("badge", <<l>>)
\* "\n<!-- Also detected (no badge yet): a, b -->"
NOTE(unknown) == Tok("note", unknown)
\* any other text of a document
TEXT(s) == Tok("text", <<s>>)

(* ------------------------- sequence helpers --------------------------- *)

Range(s) == {s[i] : i \in 1..Len(s)}

RECURSIVE Filter(_, _)
\* [x for x in s if x in S], order kept
Filter(s, S) ==
    IF s = <<>> THEN <<>>
    ELSE (IF Head(s) \in S THEN <<Head(s)>> ELSE <<>>) \o Filter(Tail(s), S)

RECURSIVE Join(_, _)
\* sep.join(s) over token sequences
Join(s, sep) ==
    IF s = <<>> THEN <<>>
    ELSE IF Len(s) = 1 THEN <<s[1]>>
    ELSE <<s[1], sep>> \o Join(Tail(s), sep)


(* ------------------------ the language tally -------------------------- *)
\* A dict is a sequence of [lang, bytes] entries in insertion order: Python
\* dicts iterate in insertion order, and the sort below is stable over it.

Keys(d) == {d[i].lang : i \in 1..Len(d)}

\* d.get(l, 0)
Get(d, l) ==
    IF l \in Keys(d)
    THEN (CHOOSE e \in Range(d) : e.lang = l).bytes
    ELSE 0

\* d[l] = n: an existing key keeps its position, a new one goes last
Put(d, l, n) ==
    IF l \in Keys(d)
    THEN [i \in 1..Len(d) |-> IF d[i].lang = l THEN [lang |-> l, bytes |-> n] ELSE d[i]]
    ELSE Append(d, [lang |-> l, bytes |-> n])

\* the body of the inner loop with the skip test left out
AddLanguageNoSkip(tot, e) == Put(tot, e.lang, Get(tot, e.lang) + e.bytes)

\* if lang not in SKIP_LANGUAGES: totals[lang] = totals.get(lang, 0) + bytes_count
AddLanguage(tot, e) ==
    IF e.lang \notin SKIP_LANGUAGES
    THEN Put(tot, e.lang, Get(tot, e.lang) + e.bytes)
    ELSE tot

RECURSIVE AddLanguages(_, _)
\* for lang, bytes_count in langs.items(): ...
AddLanguages(tot, langs) ==
    IF langs = <<>> THEN tot
    ELSE AddLanguages(AddLanguage(tot, Head(langs)), Tail(langs))

RECURSIVE SumValues(_)
\* sum(totals.values())
SumValues(d) == IF d = <<>> THEN 0 ELSE Head(d).bytes + SumValues(Tail(d))

\* the filter with > in place of >=
MeetsMinPercentStrict(count, total) ==
    count * 100 * 10 > MIN_PERCENT_TENTHS * total

\* (count / total_bytes * 100) >= MIN_PERCENT.  The code evaluates this in
\* double precision; for the byte totals of this model (and for every total
\* a 32-bit integer holds) the rounded result falls on the same side of 0.5
\* as the exact quotient, so the exact comparison is computed here, scaled
\* by 10 to stay in the integers.
MeetsMinPercent(count, total) ==
    count * 100 * 10 >= MIN_PERCENT_TENTHS * total

RECURSIVE FilterMin(_, _)
\* {lang: count for lang, count in totals.items() if ... >= MIN_PERCENT}
FilterMin(d, total) ==
    IF d = <<>> THEN <<>>
    ELSE (IF MeetsMinPercent(Head(d).bytes, total) THEN <<Head(d)>> ELSE <<>>)
         \o FilterMin(Tail(d), total)

\* where a stable ascending sort puts e among the already sorted entries
InsertAscending(sorted, e) ==
    LET n == Cardinality({i \in 1..Len(sorted) : sorted[i].bytes <= e.bytes})
    IN  SubSeq(sorted, 1, n) \o <<e>> \o SubSeq(sorted, n + 1, Len(sorted))

\* where sorted(..., reverse=True) puts e, a later entry of the input, among
\* the already sorted earlier ones: after every entry with at least its count
InsertDescending(sorted, e) ==
    LET n == Cardinality({i \in 1..Len(sorted) : sorted[i].bytes >= e.bytes})
    IN  SubSeq(sorted, 1, n) \o <<e>> \o SubSeq(sorted, n + 1, Len(sorted))

RECURSIVE SortedByCount(_)
\* sorted(filtered, key=filtered.get, reverse=True), as entries
SortedByCount(d) ==
    IF d = <<>> THEN <<>>
    ELSE InsertDescending(SortedByCount(SubSeq(d, 1, Len(d) - 1)), d[Len(d)])

\* lines 96-109 of detect_languages: the returned list of names
sorted_langs(tot) ==
    IF tot = <<>> THEN <<>>
    ELSE LET total_bytes == SumValues(tot)
             filtered    == FilterMin(tot, total_bytes)
             srt         == SortedByCount(filtered)
         IN  [i \in 1..Len(srt) |-> srt[i].lang]

(* --------------------------- the renderer ----------------------------- *)

build_tech_stack_section(langs) ==
    LET known   == Filter(langs, BADGE_MAP_KEYS)
        unknown == Filter(langs, Range(langs) \ BADGE_MAP_KEYS)
        badges  == Join([i \in 1..Len(known) |-> BADGE_MAP(known[i])], NEWLINE)
        note    == IF unknown # <<>> THEN <<NOTE(unknown)>> ELSE <<>>
    IN  <<START, HEADING>> \o badges \o note \o <<BLANK, END>>

(* --------------------------- the splicer ------------------------------ *)

\* position of the first END after position i, 0 when there is none
FirstEndAfter(c, i) ==
    IF \E j \in (i + 1)..Len(c) : c[j] = END
    THEN CHOOSE j \in (i + 1)..Len(c) :
            c[j] = END /\ \A q \in (i + 1)..(j - 1) : c[q] # END
    ELSE 0

\* position of the last END after position i, 0 when there is none
LastEndAfter(c, i) ==
    IF \E j \in (i + 1)..Len(c) : c[j] = END
    THEN CHOOSE j \in (i + 1)..Len(c) :
            c[j] = END /\ \A q \in (j + 1)..Len(c) : c[q] # END
    ELSE 0

\* the pattern with a greedy .* in place of .*?
MatchEndGreedy(c, i) == IF c[i] = START THEN LastEndAfter(c, i) ELSE 0

\* r"<!-- TECH-STACK-START -->.*?<!-- TECH-STACK-END -->" with re.DOTALL,
\* tried at position i: the position where the match ends, 0 for no match
MatchEnd(c, i) == IF c[i] = START THEN FirstEndAfter(c, i) ELSE 0

\* re.search(pattern, content, re.DOTALL)
re_search(c) == \E i \in 1..Len(c) : MatchEnd(c, i) # 0

RECURSIVE re_sub_from(_, _, _)
\* re.sub scanning from position i: leftmost match first, the scan resumes
\* after the match, unmatched text is copied
re_sub_from(c, repl, i) ==
    IF i > Len(c) THEN <<>>
    ELSE IF MatchEnd(c, i) # 0
         THEN repl \o re_sub_from(c, repl, MatchEnd(c, i) + 1)
         ELSE <<c[i]>> \o re_sub_from(c, repl, i + 1)

\* re.sub(pattern, new_section, content, flags=re.DOTALL)
re_sub(c, repl) == re_sub_from(c, repl, 1)

RECURSIVE str_replace(_, _, _)
\* content.replace(old, new): every occurrence of the token old
str_replace(c, old, new) ==
    IF c = <<>> THEN <<>>
    ELSE (IF Head(c) = old THEN new ELSE <<Head(c)>>) \o str_replace(Tail(c), old, new)

\* update_readme: the text written back and the action reported
update_readme(content, new_section) ==
    IF re_search(content)
    THEN [updated |-> re_sub(content, new_section), action |-> "updated"]
    ELSE IF MARKER \in Range(content)
    THEN [updated |-> str_replace(content, MARKER,
                                  new_section \o <<SEPARATOR>> \o <<MARKER>>),
          action  |-> "inserted"]
    ELSE [updated |-> content \o <<BLANK>> \o new_section, action |-> "appended"]


(* ------------------------- the remote service ------------------------- *)

\* languages a repository's language mapping may name: two with a badge,
\* one without, one of the skip set
Langs == {"Python", "HTML", "Zig", "Makefile"}

\* byte counts a mapping may give; 1 against 199 is a share of exactly 0.5%
ByteVals == {1, 199}

\* the bodies of a 200 response of the languages endpoint: JSON objects of
\* no, one or two languages, in the order the service sends the keys
LangBodies ==
    {b \in UNION {[1..n -> [lang : Langs, bytes : ByteVals]] : n \in 0..2} :
        \A i, j \in 1..Len(b) : i # j => b[i].lang # b[j].lang}

\* resp.status_code of a response that is not 200
ErrorStatus == {403, 404}

\* the pages the listing may return once n repositories are listed
ListBodies(n) ==
    {[i \in 1..k |-> [name |-> n + i, fork |-> f[i]]] :
        k \in 0..MaxPageLen, f \in [1..MaxPageLen -> BOOLEAN]}

\* README.md before a run: with a managed region, with the marker heading,
\* with neither
Readmes ==
    {<<TEXT("a"), START, TEXT("b"), END, MARKER>>,
     <<TEXT("a"), MARKER, TEXT("b")>>,
     <<TEXT("a")>>}

(* ------------------------------ state --------------------------------- *)

VARIABLES
    TOKEN,        \* the credential of the environment
    pc,           \* "list", "langs", "main", "done", "raised"
    page,         \* get_all_repos: page
    repos,        \* get_all_repos: repos
    idx,          \* detect_languages: position of the for loop in repos
    totals,       \* detect_languages: totals
    languages,    \* __main__: languages
    section,      \* __main__: section
    readme,       \* the text of README.md
    before,       \* the text of README.md before it was last written
    action,       \* update_readme: action, "none" while nothing was written
    writes,       \* how many times README.md was opened for writing
    requests,     \* every request sent, in order: [endpoint, arg, headers]
    failed,       \* languages requests answered with a status other than 200
    raised,       \* where an exception left the run: "none", "list", "langs"
    received      \* bytes received per language from non-fork repositories

vars == <<TOKEN, pc, page, repos, idx, totals, languages, section, readme,
          before, action, writes, requests, failed, raised, received>>

fetchVars == <<page, repos, idx, totals, languages, requests, failed, raised, received>>
fileVars == <<section, readme, before, action, writes>>

Init ==
    /\ TOKEN \in TOKENS
    /\ pc = "list"
    /\ page = 1
    /\ repos = <<>>
    /\ idx = 1
    /\ totals = <<>>
    /\ languages = <<>>
    /\ section = <<>>
    /\ readme \in Readmes
    /\ before = readme
    /\ action = "none"
    /\ writes = 0
    /\ requests = <<>>
    /\ failed = 0
    /\ raised = "none"
    /\ received = [l \in Langs |-> 0]

Request(endpoint, arg) ==
    [endpoint |-> endpoint, arg |-> arg, headers |-> HEADERS(TOKEN)]

(* ------------------------------ actions ------------------------------- *)

\* get_all_repos with the failure caught inside the loop: the loop ends and
\* the repositories listed so far are returned
get_all_repos_partial ==
    /\ pc = "list"
    /\ requests' = Append(requests, Request("repos", page))
    /\ \/ /\ pc' = "langs"
          /\ raised' = "list"
          /\ UNCHANGED <<page, repos>>
       \/ /\ pc' = "langs"
          /\ UNCHANGED <<page, repos, raised>>
       \/ /\ \E data \in ListBodies(Len(repos)) :
                /\ data # <<>>
                /\ Len(repos) + Len(data) <= MaxRepos
                /\ repos' = repos \o data
          /\ page' = page + 1
          /\ UNCHANGED <<pc, raised>>
    /\ UNCHANGED <<TOKEN, idx, totals, languages, failed, received>>
    /\ UNCHANGED fileVars

\* One turn of the while loop of get_all_repos.  requests.get raises on a
\* transport failure and raise_for_status raises on a non-success status:
\* either way the exception leaves get_all_repos, detect_languages and the
\* script.  An empty page ends the loop and the for loop of
\* detect_languages starts; any other page is appended.
get_all_repos ==
    /\ pc = "list"
    /\ requests' = Append(requests, Request("repos", page))
    /\ \/ /\ pc' = "raised"
          /\ raised' = "list"
          /\ UNCHANGED <<page, repos>>
       \/ /\ pc' = "langs"
          /\ UNCHANGED <<page, repos, raised>>
       \/ /\ \E data \in ListBodies(Len(repos)) :
                /\ data # <<>>
                /\ Len(repos) + Len(data) <= MaxRepos
                /\ repos' = repos \o data
          /\ page' = page + 1
          /\ UNCHANGED <<pc, raised>>
    /\ UNCHANGED <<TOKEN, idx, totals, languages, failed, received>>
    /\ UNCHANGED fileVars

\* if repo.get("fork"): continue
detect_languages_fork ==
    /\ pc = "langs"
    /\ idx <= Len(repos)
    /\ repos[idx].fork
    /\ idx' = idx + 1
    /\ UNCHANGED <<TOKEN, pc, page, repos, totals, languages, requests, failed,
                   raised, received>>
    /\ UNCHANGED fileVars

\* get_repo_languages on a response: the body when the status is 200, {}
\* otherwise
get_repo_languages(resp) ==
    IF resp.status_code = 200 THEN resp.json ELSE <<>>

\* what the service may answer to a languages request
LangResponses ==
    {[status_code |-> 200, json |-> b] : b \in LangBodies}
    \cup {[status_code |-> c, json |-> <<>>] : c \in ErrorStatus}

RECURSIVE Tally(_, _)
\* the bytes of a mapping added per language
Tally(rcv, langs) ==
    IF langs = <<>> THEN rcv
    ELSE Tally([rcv EXCEPT ![Head(langs).lang] = @ + Head(langs).bytes], Tail(langs))

\* One turn of the for loop of detect_languages on a repository that is no
\* fork: the request of get_repo_languages, then the inner loop.  A
\* transport failure makes requests.get raise; nothing catches it.
detect_languages_repo ==
    /\ pc = "langs"
    /\ idx <= Len(repos)
    /\ ~repos[idx].fork
    /\ requests' = Append(requests, Request("languages", repos[idx].name))
    /\ \/ /\ pc' = "raised"
          /\ raised' = "langs"
          /\ UNCHANGED <<idx, totals, failed, received>>
       \/ /\ \E resp \in LangResponses :
                LET langs == get_repo_languages(resp)
                IN  /\ totals' = AddLanguages(totals, langs)
                    /\ received' = Tally(received, langs)
                    /\ failed' = IF resp.status_code = 200 THEN failed ELSE failed + 1
          /\ idx' = idx + 1
          /\ UNCHANGED <<pc, raised>>
    /\ UNCHANGED <<TOKEN, page, repos, languages>>
    /\ UNCHANGED fileVars

\* the end of detect_languages, lines 96-109, and its return to __main__
detect_languages_return ==
    /\ pc = "langs"
    /\ idx > Len(repos)
    /\ languages' = sorted_langs(totals)
    /\ pc' = "main"
    /\ UNCHANGED <<TOKEN, page, repos, idx, totals, requests, failed, raised, received>>
    /\ UNCHANGED fileVars

\* the write of update_readme: README.md is opened for writing and gets the
\* spliced text
WriteReadme(new_section) ==
    LET r == update_readme(readme, new_section)
    IN  /\ section' = new_section
        /\ before' = readme
        /\ readme' = r.updated
        /\ action' = r.action
        /\ writes' = writes + 1

\* __main__ without the test of languages
main_always_writes ==
    /\ pc = "main"
    /\ WriteReadme(build_tech_stack_section(languages))
    /\ pc' = "done"
    /\ UNCHANGED TOKEN
    /\ UNCHANGED fetchVars

\* __main__ after detect_languages returned
main ==
    /\ pc = "main"
    /\ IF languages # <<>>
       THEN WriteReadme(build_tech_stack_section(languages))
       ELSE UNCHANGED fileVars
    /\ pc' = "done"
    /\ UNCHANGED TOKEN
    /\ UNCHANGED fetchVars

Next ==
    \/ get_all_repos
    \/ detect_languages_fork
    \/ detect_languages_repo
    \/ detect_languages_return
    \/ main

\* one run of the script
Spec == Init /\ [][Next]_vars


(* ------------------- the splice step on any document ------------------ *)

\* the tokens a document is made of
DocTokens == {START, END, MARKER, TEXT("a"), TEXT("b")}

\* every document of at most MaxDocLen tokens
Docs == UNION {[1..n -> DocTokens] : n \in 0..MaxDocLen}

\* the language lists detect_languages can return for the splice runs
SectionInputs == {<<"Python">>, <<"Zig">>, <<"Python", "Zig">>, <<"Zig", "Python">>}

InitSplice ==
    /\ TOKEN = ""
    /\ pc = "main"
    /\ page = 1
    /\ repos = <<>>
    /\ idx = 1
    /\ totals = <<>>
    /\ languages \in SectionInputs
    /\ section = build_tech_stack_section(languages)
    /\ readme \in Docs
    /\ before = readme
    /\ action = "none"
    /\ writes = 0
    /\ requests = <<>>
    /\ failed = 0
    /\ raised = "none"
    /\ received = [l \in Langs |-> 0]

\* update_readme(section) applied once more to README.md, as a further run
\* that detects the same languages does
splice ==
    /\ pc = "main"
    /\ writes < MaxRuns
    /\ WriteReadme(build_tech_stack_section(languages))
    /\ UNCHANGED <<TOKEN, pc>>
    /\ UNCHANGED fetchVars

NextSplice == splice

\* the splice step applied repeatedly with one section
SpecSplice == InitSplice /\ [][NextSplice]_vars


(* ============================ properties ============================== *)

\* detect_languages has returned to __main__
Returned == pc \in {"main", "done"}

\* bytes received over all repositories for the languages outside the skip set
RECURSIVE SumOver(_, _)
SumOver(f, S) ==
    IF S = {} THEN 0
    ELSE LET x == CHOOSE y \in S : TRUE IN f[x] + SumOver(f, S \ {x})

CountedTotal == SumOver(received, Langs \ SKIP_LANGUAGES)

\* the languages whose share of the counted total is at least 0.5%, that is
\* at least 1/200
Retained ==
    {l \in Langs \ SKIP_LANGUAGES :
        received[l] > 0 /\ received[l] * 200 >= CountedTotal}

NonForks == {i \in 1..Len(repos) : ~repos[i].fork}

(* ---- C2 ---- *)
\* C2: when no repository yielded any language (no repositories, only
\* forks, or only failed or empty language fetches), detect_languages
\* returns the empty list and the run ends with README.md never written and
\* unchanged.
C2_NothingToUpdate ==
    (Returned /\ \A l \in Langs : received[l] = 0) =>
        /\ languages = <<>>
        /\ raised = "none"
        /\ writes = 0
        /\ action = "none"
        /\ readme = before

\* C2 witness: a finished run over a fork and a repository whose language
\* fetch got a non-success response
C2_Witness ==
    /\ pc = "done"
    /\ \A l \in Langs : received[l] = 0
    /\ Len(repos) = 2
    /\ Cardinality(NonForks) = 1
    /\ failed = 1
    /\ writes = 0

(* ---- C3 ---- *)
\* C3: a failed listing request, on any page, ends the run there: the page
\* was requested once and no page twice, no languages request was sent, the
\* repositories already listed were not aggregated and README.md was not
\* written.
C3_ListingFailureIsFatal ==
    (raised = "list") =>
        /\ pc = "raised"
        /\ Len(requests) = page
        /\ \A i \in 1..Len(requests) :
              requests[i].endpoint = "repos" /\ requests[i].arg = i
        /\ idx = 1
        /\ totals = <<>>
        /\ languages = <<>>
        /\ writes = 0
        /\ readme = before

\* C3 witness: the listing failed on a later page, with repositories that
\* are no forks already listed
C3_Witness ==
    /\ raised = "list"
    /\ page > 1
    /\ NonForks # {}

(* ---- C4 ---- *)
\* C4 (as claimed): no failure of a languages fetch, transport failures
\* included, ever leaves get_repo_languages: the run is never ended by one.
C4_FetchFailureAbsorbed == raised # "langs"

(* ---- C5 ---- *)
\* C5: with a positive byte total, a language is in the list returned by
\* detect_languages exactly when its bytes summed over all repositories are
\* at least 0.5% of the total of the languages outside the skip set.
C5_MinPercentFilter ==
    (Returned /\ CountedTotal > 0) =>
        \A l \in Langs : (l \in Range(languages)) <=> (l \in Retained)

\* C5 witness: a finished run that returned a language whose share of the
\* counted total is exactly 0.5%
C5_Witness ==
    /\ pc = "done"
    /\ \E l \in Range(languages) : received[l] * 200 = CountedTotal

(* ---- C6 ---- *)
\* C6: the list returned for a non-empty tally is ordered by aggregated
\* byte count, descending, and holds every retained language exactly once.
C6_SortedDescending ==
    (Returned /\ totals # <<>>) =>
        /\ \A i, j \in 1..Len(languages) :
              i < j => received[languages[i]] >= received[languages[j]]
        /\ \A i, j \in 1..Len(languages) :
              i # j => languages[i] # languages[j]
        /\ Range(languages) = Retained

\* C6 witness: three languages returned, the first with more bytes than the
\* last, in an order that is not the order the tally met them in
C6_Witness ==
    /\ pc = "done"
    /\ Len(languages) = 3
    /\ received[languages[1]] > received[languages[3]]
    /\ totals[1].lang # languages[1]

(* ---- C7 ---- *)
\* C7: no language of the skip set is a key of the tally or an element of
\* the returned list, and the total the filter divides by counts no bytes of
\* a skipped language.
C7_SkipSetExcluded ==
    /\ Keys(totals) \cap SKIP_LANGUAGES = {}
    /\ Range(languages) \cap SKIP_LANGUAGES = {}
    /\ SumValues(totals) = CountedTotal

\* C7 witness: a skipped language was received with more bytes than all
\* counted languages together, and the run returned languages
C7_Witness ==
    /\ pc = "done"
    /\ languages # <<>>
    /\ \E l \in Langs \cap SKIP_LANGUAGES : received[l] > CountedTotal

(* ---- C8 ---- *)
\* C8 (as claimed): a request carries an Authorization header exactly when
\* the credential is not empty.
C8_AuthorizationOnlyWithCredential ==
    \A i \in 1..Len(requests) :
        ("Authorization" \in DOMAIN requests[i].headers) <=> (TOKEN # "")

(* ---- C1 ---- *)
\* C1 (as claimed): a second application of the splice step with the same
\* section leaves the document as the first application left it.
C1_SpliceIdempotent == (writes >= 2) => (readme = before)

(* ---- C9 ---- *)
\* position of the first START of c, 0 when there is none
FirstStart(c) ==
    IF START \in Range(c)
    THEN CHOOSE i \in 1..Len(c) : c[i] = START /\ \A q \in 1..(i - 1) : c[q] # START
    ELSE 0

\* C9 (as claimed): on the replace path the result is the text before the
\* first start sentinel, the new section, and the text after the last end
\* sentinel.
C9_GreedyReplace ==
    (action = "updated") =>
        LET i == FirstStart(before)
            j == LastEndAfter(before, i)
        IN  readme = SubSeq(before, 1, i - 1) \o section
                        \o SubSeq(before, j + 1, Len(before))

\* position of the last END before position j, 0 when there is none
PrevEnd(c, j) ==
    IF \E q \in 1..(j - 1) : c[q] = END
    THEN CHOOSE q \in 1..(j - 1) : c[q] = END /\ \A r \in (q + 1)..(j - 1) : c[r] # END
    ELSE 0

\* the END positions that close a region: a START lies between the END
\* before it (or the start of the text) and it
RegionEnds(c) ==
    {j \in 1..Len(c) :
        c[j] = END /\ \E p \in (PrevEnd(c, j) + 1)..(j - 1) : c[p] = START}

\* where the region closed at j opens: the first START after the END before it
RegionStart(c, j) ==
    CHOOSE p \in (PrevEnd(c, j) + 1)..(j - 1) :
        c[p] = START /\ \A q \in (PrevEnd(c, j) + 1)..(p - 1) : c[q] # START

RegionStarts(c) == {RegionStart(c, j) : j \in RegionEnds(c)}

InRegion(c, p) == \E j \in RegionEnds(c) : RegionStart(c, j) <= p /\ p <= j

RECURSIVE RegionsReplaced(_, _, _)
\* c from position p on, each region standing for one copy of sect and every
\* token outside the regions standing for itself
RegionsReplaced(c, sect, p) ==
    IF p > Len(c) THEN <<>>
    ELSE (IF p \in RegionStarts(c) THEN sect
          ELSE IF InRegion(c, p) THEN <<>>
          ELSE <<c[p]>>) \o RegionsReplaced(c, sect, p + 1)

\* C9 (amended): on the replace path every region that runs from a start
\* sentinel to the first end sentinel after it is replaced by one copy of the
\* new section, and the text outside those regions, the text after the
\* first end sentinel included, is unchanged.
C9_LazyReplace ==
    (action = "updated") => readme = RegionsReplaced(before, section, 1)

\* C9 witness: a first replacement in a document with two end sentinels
\* after its first start sentinel, which keeps text after the first of them
C9_Witness ==
    /\ action = "updated"
    /\ writes = 1
    /\ Cardinality({j \in (FirstStart(before) + 1)..Len(before) : before[j] = END}) >= 2
    /\ Len(readme) > FirstStart(before) - 1 + Len(section)

(* ---- C10 ---- *)
\* C10 (as claimed): on the insert path the new section, followed by the
\* separator, is inserted once before the marker, the result holds exactly
\* one managed region, and the rest of the text is unchanged.
C10_InsertedOnce ==
    (action = "inserted") =>
        /\ \E m \in 1..Len(before) :
              /\ before[m] = MARKER
              /\ readme = SubSeq(before, 1, m - 1) \o section \o <<SEPARATOR>>
                             \o SubSeq(before, m, Len(before))
        /\ Cardinality(RegionEnds(readme)) = 1

=============================================================================
